---- MODULE Spec2Model ----
(***************************************************************************)
(* Model of the JNI bridge android/app/src/main/cpp/ghostty_bridge.c: the  *)
(* key-encoder handle lifecycle, nativeEncodeKey and nativeIsPasteSafe.    *)
(* The bridge is translated from its source; the functions of libghostty-vt*)
(* it calls (whose code is not part of the bridge) follow spec.md.         *)
(***************************************************************************)
EXTENDS Integers, Sequences, FiniteSets, TLC

\* ---------------------------------------------------------------- bounds
MaxAddr == 1      \* encoder objects the allocator can place (addresses 1..MaxAddr)
BufSize == 3      \* scaled stand-in for sizeof(buffer) = 256 (ghostty_bridge.c:85)
MaxOver == 1      \* non-zero bytes the stack may hold directly behind buffer[]
MaxPad  == 1      \* length of the plain prefix / suffix around a paste payload

\* ------------------------------------------------------------ Java strings
\* A jstring reference: NULL, or a sequence of UTF-16 code units.
JNull   == [null |-> TRUE,  chars |-> <<>>]
JStr(s) == [null |-> FALSE, chars |-> s]

RECURSIVE Flatten(_)
Flatten(ss) == IF ss = <<>> THEN <<>> ELSE Head(ss) \o Flatten(Tail(ss))

\* JNI GetStringUTFChars: modified UTF-8 of one UTF-16 code unit.  U+0000
\* becomes C0 80, so the encoded string never holds a zero byte.
MUtf8Char(c) ==
    IF c >= 1 /\ c <= 127 THEN <<c>>
    ELSE IF c <= 2047 THEN <<192 + (c \div 64), 128 + (c % 64)>>
    ELSE <<224 + (c \div 4096), 128 + ((c \div 64) % 64), 128 + (c % 64)>>

\* JNI GetStringUTFChars: the NUL-terminated modified UTF-8 copy of a string.
GetStringUTFChars(s) ==
    Flatten([i \in 1..Len(s) |-> MUtf8Char(s[i])]) \o <<0>>

\* C strlen: number of bytes before the first zero byte.
RECURSIVE strlen(_)
strlen(m) == IF m = <<>> \/ Head(m) = 0 THEN 0 ELSE 1 + strlen(Tail(m))

\* JNI NewStringUTF on the bytes of a C string (terminator already cut off):
\* decodes modified UTF-8 back to UTF-16 code units; a malformed or cut-off
\* multi-byte form decodes to U+FFFD.
RECURSIVE NewStringUTF(_)
NewStringUTF(b) ==
    IF b = <<>> THEN <<>>
    ELSE IF b[1] < 128 THEN <<b[1]>> \o NewStringUTF(Tail(b))
    ELSE IF b[1] >= 192 /\ b[1] < 224 /\ Len(b) >= 2 /\ b[2] >= 128 /\ b[2] < 192
         THEN <<(b[1] - 192) * 64 + (b[2] - 128)>> \o NewStringUTF(SubSeq(b, 3, Len(b)))
    ELSE IF b[1] >= 224 /\ b[1] < 240 /\ Len(b) >= 3
            /\ b[2] >= 128 /\ b[2] < 192 /\ b[3] >= 128 /\ b[3] < 192
         THEN <<(b[1] - 224) * 4096 + (b[2] - 128) * 64 + (b[3] - 128)>>
              \o NewStringUTF(SubSeq(b, 4, Len(b)))
    ELSE <<65533>> \o NewStringUTF(Tail(b))

\* ------------------------------------------------- libghostty-vt (spec.md)
\* Key vocabulary seen through the jint key code: a letter key (A), the Up
\* arrow, a bare modifier key, and any value outside the closed vocabulary.
KeyCodes == 1..4
KeyKind(k) == IF k = 1 THEN "letter"
              ELSE IF k = 2 THEN "up"
              ELSE IF k = 3 THEN "modifier"
              ELSE "unknown"

\* Modifier bitmask values used as inputs: none, Control.
ModSet == {0, 2}
HasCtrl(m) == (m \div 2) % 2 = 1

\* Well-formed (standard) UTF-8: the C0 80 form of U+0000 is overlong.
RECURSIVE ValidUtf8(_)
ValidUtf8(b) ==
    IF b = <<>> THEN TRUE
    ELSE IF b[1] < 128 THEN ValidUtf8(Tail(b))
    ELSE IF b[1] >= 194 /\ b[1] < 224
         THEN Len(b) >= 2 /\ b[2] >= 128 /\ b[2] < 192 /\ ValidUtf8(SubSeq(b, 3, Len(b)))
    ELSE IF b[1] >= 224 /\ b[1] < 240
         THEN Len(b) >= 3 /\ b[2] >= 128 /\ b[2] < 192 /\ b[3] >= 128 /\ b[3] < 192
              /\ ValidUtf8(SubSeq(b, 4, Len(b)))
    ELSE FALSE

\* ghostty_key_encoder_new(NULL, ..): the default configuration.
DefaultConfig == [mode |-> "legacy", report_release |-> FALSE]

\* ghostty_key_event_new + setters: a key event value.
KeyEvent(action, key, mods, utf8) ==
    [action |-> action, key |-> key, mods |-> mods, utf8 |-> utf8]

\* The byte sequence an event encodes to under a configuration (spec.md 4.1),
\* or the rejection of a structurally invalid event.
EncodeSequence(cfg, ev) ==
    IF KeyKind(ev.key) = "unknown" \/ ~ValidUtf8(ev.utf8)
        THEN [ok |-> FALSE, bytes |-> <<>>]
    ELSE IF ev.action = "release" /\ ~cfg.report_release
        THEN [ok |-> TRUE, bytes |-> <<>>]
    ELSE IF KeyKind(ev.key) = "up"
        THEN [ok |-> TRUE,
              bytes |-> IF HasCtrl(ev.mods) \/ cfg.mode = "extended"
                        THEN <<27, 91, 49, 59, (IF HasCtrl(ev.mods) THEN 53 ELSE 49), 65>>
                        ELSE <<27, 91, 65>>]
    ELSE IF KeyKind(ev.key) = "modifier"
        THEN [ok |-> TRUE, bytes |-> <<>>]
    ELSE IF HasCtrl(ev.mods)
        THEN [ok |-> TRUE, bytes |-> <<1>>]
    ELSE [ok |-> TRUE, bytes |-> ev.utf8]

\* ghostty_key_encoder_encode(encoder, event, buf, cap, &out_len): the result
\* code, the bytes stored at the start of buf and the value left in out_len.
\* A sequence longer than cap is refused and nothing is stored.
ghostty_key_encoder_encode(cfg, ev, cap) ==
    LET e == EncodeSequence(cfg, ev) IN
    IF ~e.ok THEN [result |-> "GHOSTTY_INVALID_VALUE", stored |-> <<>>, out_len |-> 0,
                   needed |-> 0]
    ELSE IF Len(e.bytes) > cap
         THEN [result |-> "GHOSTTY_OUT_OF_MEMORY", stored |-> <<>>, out_len |-> 0,
               needed |-> Len(e.bytes)]
    ELSE [result |-> "GHOSTTY_SUCCESS", stored |-> e.bytes, out_len |-> Len(e.bytes),
          needed |-> Len(e.bytes)]

\* True when b holds an escape sequence that is cut off by the end of the
\* buffer: a trailing ESC, or ESC [ followed only by parameter bytes.
UnterminatedEscape(b) ==
    \E i \in 1..Len(b) :
        /\ b[i] = 27
        /\ \/ i = Len(b)
           \/ /\ b[i + 1] = 91
              /\ \A j \in (i + 2)..Len(b) : b[j] >= 48 /\ b[j] <= 63

\* True when pat occurs in b as a contiguous run.
Contains(b, pat) ==
    \E i \in 1..(Len(b) - Len(pat) + 1) : SubSeq(b, i, i + Len(pat) - 1) = pat

\* ghostty_paste_is_safe(bytes, len), spec.md 4.2: unsafe when the bytes hold
\* a bracketed-paste toggle (ESC [ 2 0 0 ~ or ESC [ 2 0 1 ~), an OSC
\* introducer (ESC ]), a byte of the C1 range (allowed subset taken as empty)
\* or an unterminated escape sequence.
ghostty_paste_is_safe(b) ==
    /\ ~Contains(b, <<27, 91, 50, 48, 48, 126>>)
    /\ ~Contains(b, <<27, 91, 50, 48, 49, 126>>)
    /\ ~Contains(b, <<27, 93>>)
    /\ \A i \in 1..Len(b) : ~(b[i] >= 128 /\ b[i] <= 159)
    /\ ~UnterminatedEscape(b)

\* ------------------------------------------------------------- the bridge
Addrs == 1..MaxAddr

VARIABLES heap,    \* native heap: for each address, the encoder object there
          last     \* the most recent JNI call: inputs, native calls made, result
vars == <<heap, last>>

\* One native (library or JNI environment) call made by a handler.
Call(f, arg, ok) == [f |-> f, arg |-> arg, ok |-> ok]

NoCall == [op |-> "none", handle |-> 0, key |-> 0, mods |-> 0, text |-> JNull,
           allocOk |-> TRUE, utfOk |-> TRUE, wasLive |-> FALSE,
           result |-> "none", out_len |-> 0, stored |-> <<>>, needed |-> 0,
           cstr |-> <<>>, oob |-> FALSE, trace |-> <<>>,
           retStr |-> JNull, retHandle |-> 0, retBool |-> FALSE, bytes |-> <<>>]

\* (jlong)(uintptr_t)encoder and (GhosttyKeyEncoder)(uintptr_t)handle: the
\* casts keep the bits of the pointer, so NULL is 0 and nothing else is.
PtrToHandle(p) == p
HandleToPtr(h) == h

\* The effect of a handler's native calls on the heap: encoder_new places a
\* default-configured encoder, encoder_free releases the object; encoding and
\* the key-event and string calls leave encoder objects alone.
RECURSIVE ApplyTrace(_, _)
ApplyTrace(h, t) ==
    IF t = <<>> THEN h
    ELSE LET c == Head(t)
             h2 == IF c.f = "ghostty_key_encoder_new" /\ c.ok
                       THEN [h EXCEPT ![c.arg] = [st |-> "live", cfg |-> DefaultConfig]]
                   ELSE IF c.f = "ghostty_key_encoder_free" /\ c.arg \in Addrs
                       THEN [h EXCEPT ![c.arg].st = "freed"]
                   ELSE h
         IN ApplyTrace(h2, Tail(t))

\* Handles a Java caller can hold: 0 and every value a create call returned.
KnownHandles == {0} \cup {a \in Addrs : heap[a].st # "unused"}

IsLive(h) == h \in Addrs /\ heap[h].st = "live"

Init == /\ heap = [a \in Addrs |-> [st |-> "unused", cfg |-> DefaultConfig]]
        /\ last = NoCall

\* nativeCreateKeyEncoder, lines 27-33: the value returned.
CreateReturn(result, encoder) ==
    IF result # "GHOSTTY_SUCCESS" THEN 0 ELSE PtrToHandle(encoder)

\* nativeCreateKeyEncoder: ghostty_key_encoder_new either fails or places a
\* new encoder at an address that holds no live object.
NativeCreateKeyEncoder ==
    \E a \in Addrs \cup {0} :
        /\ a # 0 => heap[a].st # "live"
        /\ LET result == IF a = 0 THEN "GHOSTTY_OUT_OF_MEMORY" ELSE "GHOSTTY_SUCCESS"
               tr == <<Call("ghostty_key_encoder_new", a, a # 0)>>
           IN /\ heap' = ApplyTrace(heap, tr)
              /\ last' = [NoCall EXCEPT !.op = "create", !.result = result, !.trace = tr,
                                        !.retHandle = CreateReturn(result, a)]

\* Variant: the NULL test is missing.
HandleIsNullOmitted(h) == FALSE

\* The "if (encoder)" / "if (!encoder)" tests of lines 40 and 57.
HandleIsNull(h) == HandleToPtr(h) = 0

\* nativeDestroyKeyEncoder, lines 39-43: the native calls made.
DestroyTrace(h) ==
    IF HandleIsNull(h) THEN <<>>
    ELSE <<Call("ghostty_key_encoder_free", HandleToPtr(h), TRUE)>>

NativeDestroyKeyEncoder ==
    \E h \in KnownHandles :
        /\ heap' = ApplyTrace(heap, DestroyTrace(h))
        /\ last' = [NoCall EXCEPT !.op = "destroy", !.handle = h, !.wasLive = IsLive(h),
                                  !.trace = DestroyTrace(h)]

\* Inputs of nativeEncodeKey: the text argument is absent, "A", "e-acute",
\* or a string one longer than the buffer.
Texts == {JNull, JStr(<<65>>), JStr(<<233>>), JStr([i \in 1..(BufSize + 1) |-> 65])}

\* What an uninitialised byte of the stack can hold (0 or 'B').
StaleBytes == {0, 66}

\* What the memory of a freed encoder object can read as.
Configs == [mode : {"legacy", "extended"}, report_release : {FALSE}]

\* Variant: a capacity one larger than the array is passed.
BufferCapOff == BufSize + 1

\* sizeof(buffer), the capacity passed at line 87.
BufferCap == BufSize

\* Variant: the cleanup frees the encoder instead of the key event.
EncodeTraceFreesEncoder(h, allocOk, text, utfOk) ==
    IF HandleIsNull(h) THEN <<>>
    ELSE IF ~allocOk THEN <<Call("ghostty_key_event_new", 0, FALSE)>>
    ELSE <<Call("ghostty_key_event_new", 0, TRUE),
           Call("ghostty_key_event_set_action", 0, TRUE),
           Call("ghostty_key_event_set_key", 0, TRUE),
           Call("ghostty_key_event_set_mods", 0, TRUE)>>
         \o (IF text.null THEN <<>>
             ELSE IF ~utfOk THEN <<Call("GetStringUTFChars", 0, FALSE)>>
             ELSE <<Call("GetStringUTFChars", 0, TRUE),
                    Call("ghostty_key_event_set_utf8", 0, TRUE),
                    Call("ReleaseStringUTFChars", 0, TRUE)>>)
         \o <<Call("ghostty_key_encoder_encode", HandleToPtr(h), TRUE),
              Call("ghostty_key_encoder_free", HandleToPtr(h), TRUE)>>

\* Variant: the UTF-8 copy of the text is never released.
EncodeTraceLeaksUtf(h, allocOk, text, utfOk) ==
    IF HandleIsNull(h) THEN <<>>
    ELSE IF ~allocOk THEN <<Call("ghostty_key_event_new", 0, FALSE)>>
    ELSE <<Call("ghostty_key_event_new", 0, TRUE),
           Call("ghostty_key_event_set_action", 0, TRUE),
           Call("ghostty_key_event_set_key", 0, TRUE),
           Call("ghostty_key_event_set_mods", 0, TRUE)>>
         \o (IF text.null THEN <<>>
             ELSE IF ~utfOk THEN <<Call("GetStringUTFChars", 0, FALSE)>>
             ELSE <<Call("GetStringUTFChars", 0, TRUE),
                    Call("ghostty_key_event_set_utf8", 0, TRUE)>>)
         \o <<Call("ghostty_key_encoder_encode", HandleToPtr(h), TRUE),
              Call("ghostty_key_event_free", 0, TRUE)>>

\* nativeEncodeKey, lines 56-89: the native calls made, in order.
EncodeTrace(h, allocOk, text, utfOk) ==
    IF HandleIsNull(h) THEN <<>>
    ELSE IF ~allocOk THEN <<Call("ghostty_key_event_new", 0, FALSE)>>
    ELSE <<Call("ghostty_key_event_new", 0, TRUE),
           Call("ghostty_key_event_set_action", 0, TRUE),
           Call("ghostty_key_event_set_key", 0, TRUE),
           Call("ghostty_key_event_set_mods", 0, TRUE)>>
         \o (IF text.null THEN <<>>
             ELSE IF ~utfOk THEN <<Call("GetStringUTFChars", 0, FALSE)>>
             ELSE <<Call("GetStringUTFChars", 0, TRUE),
                    Call("ghostty_key_event_set_utf8", 0, TRUE),
                    Call("ReleaseStringUTFChars", 0, TRUE)>>)
         \o <<Call("ghostty_key_encoder_encode", HandleToPtr(h), TRUE),
              Call("ghostty_key_event_free", 0, TRUE)>>

\* nativeEncodeKey, lines 71-82: the event handed to the encoder.  The action
\* is always a press; the text is set only when the string and its UTF-8
\* copy are both there, with strlen as its length.
BridgeEvent(key, mods, text, utfOk) ==
    LET utf8 == GetStringUTFChars(text.chars) IN
    KeyEvent("press", key, mods,
             IF text.null \/ ~utfOk THEN <<>> ELSE SubSeq(utf8, 1, strlen(utf8)))

\* nativeEncodeKey, lines 91-104: the value returned, given what the C-string
\* read of buffer produced.
EncodeReturn(result, out_len, cstr) ==
    IF result # "GHOSTTY_SUCCESS" THEN JNull
    ELSE IF out_len = 0 THEN JNull
    ELSE JStr(NewStringUTF(cstr))

\* The stack memory NewStringUTF(env, buffer) walks: the bytes the encoder
\* stored in buffer[], then the rest of the array (never written by the
\* bridge), then the bytes behind the array up to the first zero.
MemoryAt(stored, rest, beyond) == stored \o rest \o beyond \o <<0>>

\* nativeEncodeKey as a function of its arguments and of what the
\* environment decides: allocation outcomes, the configuration read through
\* the handle, the uninitialised contents of buffer[] and of the stack
\* behind it.
EncodeCall(h, key, mods, text, allocOk, utfOk, cfg, rest, beyond) ==
    LET tr  == EncodeTrace(h, allocOk, text, utfOk)
        enc == ghostty_key_encoder_encode(cfg, BridgeEvent(key, mods, text, utfOk), BufferCap)
        mem == MemoryAt(enc.stored, rest, beyond)
        n   == strlen(mem)
        called == \E i \in 1..Len(tr) : tr[i].f = "ghostty_key_encoder_encode"
        reads  == called /\ enc.result = "GHOSTTY_SUCCESS" /\ enc.out_len # 0
        base == [NoCall EXCEPT !.op = "encode", !.handle = h, !.key = key, !.mods = mods,
                               !.text = text, !.allocOk = allocOk, !.utfOk = utfOk,
                               !.wasLive = IsLive(h), !.trace = tr]
    IN IF ~called THEN base
       ELSE [base EXCEPT !.result = enc.result, !.out_len = enc.out_len,
                         !.stored = enc.stored, !.needed = enc.needed,
                         !.cstr = IF reads THEN SubSeq(mem, 1, n) ELSE <<>>,
                         !.oob = reads /\ n >= BufSize,
                         !.retStr = EncodeReturn(enc.result, enc.out_len, SubSeq(mem, 1, n))]

\* Environment choices that can influence a call with these arguments.
AllocChoices(h) == IF HandleIsNull(h) THEN {TRUE} ELSE BOOLEAN
UtfChoices(h, allocOk, text) ==
    IF HandleIsNull(h) \/ ~allocOk \/ text.null THEN {TRUE} ELSE BOOLEAN
CfgChoices(h) == IF IsLive(h) THEN {heap[h].cfg}
                 ELSE IF HandleIsNull(h) THEN {DefaultConfig}
                 ELSE Configs

\* True when the call gets as far as NewStringUTF(env, buffer).
ReadsBuffer(h, key, mods, text, allocOk, utfOk, cfg) ==
    LET r == EncodeCall(h, key, mods, text, allocOk, utfOk, cfg, <<>>, <<>>)
    IN r.result = "GHOSTTY_SUCCESS" /\ r.out_len # 0

\* Uninitialised contents of the part of buffer[] the encoder did not write,
\* and of the stack behind the array (looked at only when buffer[] holds no
\* zero byte).  Calls that never read the buffer get a single placeholder.
RestChoices(reads, storedLen) ==
    IF reads /\ storedLen < BufSize THEN [1..(BufSize - storedLen) -> StaleBytes]
    ELSE {<<>>}
BeyondChoices(reads, stored, rest) ==
    IF reads /\ strlen(stored \o rest) = Len(stored \o rest)
    THEN {[i \in 1..k |-> 66] : k \in 0..MaxOver}
    ELSE {<<>>}

NativeEncodeKey ==
    \E h \in KnownHandles, key \in KeyCodes, mods \in ModSet, text \in Texts :
    \E allocOk \in AllocChoices(h) :
    \E utfOk \in UtfChoices(h, allocOk, text), cfg \in CfgChoices(h) :
    LET probe == EncodeCall(h, key, mods, text, allocOk, utfOk, cfg, <<>>, <<>>)
        reads == ReadsBuffer(h, key, mods, text, allocOk, utfOk, cfg)
    IN \E rest \in RestChoices(reads, Len(probe.stored)) :
       \E beyond \in BeyondChoices(reads, probe.stored, rest) :
        /\ last' = EncodeCall(h, key, mods, text, allocOk, utfOk, cfg, rest, beyond)
        /\ heap' = ApplyTrace(heap, last'.trace)

\* nativeIsPasteSafe, lines 114-126: the native calls made, in order.
PasteTrace(data, utfOk) ==
    IF data.null THEN <<>>
    ELSE IF ~utfOk THEN <<Call("GetStringUTFChars", 0, FALSE)>>
    ELSE <<Call("GetStringUTFChars", 0, TRUE),
           Call("ghostty_paste_is_safe", 0, TRUE),
           Call("ReleaseStringUTFChars", 0, TRUE)>>

\* Variant: an absent string is reported safe.
PasteVerdictNullSafe(data, utfOk, is_safe) ==
    IF data.null THEN TRUE
    ELSE IF ~utfOk THEN FALSE
    ELSE is_safe

\* Variant: the classifier's answer is returned negated.
PasteVerdictNegated(data, utfOk, is_safe) ==
    IF data.null THEN FALSE
    ELSE IF ~utfOk THEN FALSE
    ELSE ~is_safe

\* nativeIsPasteSafe, lines 114-129: the verdict returned.
PasteVerdict(data, utfOk, is_safe) ==
    IF data.null THEN FALSE
    ELSE IF ~utfOk THEN FALSE
    ELSE is_safe

\* nativeIsPasteSafe, lines 118-124: the bytes handed to the classifier.
PasteBytes(data) ==
    LET utf8 == GetStringUTFChars(data.chars) IN SubSeq(utf8, 1, strlen(utf8))

NativeIsPasteSafe(data, utfOk) ==
    /\ last' = [NoCall EXCEPT !.op = "paste", !.text = data, !.utfOk = utfOk,
                              !.trace = PasteTrace(data, utfOk),
                              !.bytes = IF data.null \/ ~utfOk THEN <<>> ELSE PasteBytes(data),
                              !.retBool = PasteVerdict(data, utfOk,
                                              ghostty_paste_is_safe(PasteBytes(data)))]
    /\ heap' = ApplyTrace(heap, last'.trace)

\* Paste payloads: nothing, the two bracketed-paste toggles, an OSC, a lone
\* ESC, a cut-off CSI, a complete harmless CSI, NUL and a non-ASCII letter.
Payloads == {<<>>, <<27, 91, 50, 48, 49, 126>>, <<27, 91, 50, 48, 48, 126>>,
             <<27, 93, 48>>, <<27>>, <<27, 91, 50>>, <<27, 91, 65>>, <<0>>, <<233>>}
PlainChars == {65, 66}
PlainStrs == UNION {[1..k -> PlainChars] : k \in 0..MaxPad}
PasteInputs == {JNull} \cup {JStr(pre \o mid \o suf) :
                                pre \in PlainStrs, mid \in Payloads, suf \in PlainStrs}

Next == \/ NativeCreateKeyEncoder
        \/ NativeDestroyKeyEncoder
        \/ NativeEncodeKey
        \/ \E d \in {JNull} \cup {JStr(p) : p \in Payloads}, u \in BOOLEAN : NativeIsPasteSafe(d, u)

Spec == Init /\ [][Next]_vars

\* The paste check alone, over padded inputs.
NextPaste == \E d \in PasteInputs, u \in BOOLEAN : NativeIsPasteSafe(d, u)

SpecPaste == Init /\ [][NextPaste]_vars

\* ------------------------------------------------------------- properties
\* Positions of the successful calls of f in a trace.
Idx(tr, f) == {i \in 1..Len(tr) : tr[i].f = f /\ tr[i].ok}

\* The encoder library functions that take the encoder object.
EncoderCalls == {"ghostty_key_encoder_encode", "ghostty_key_encoder_free"}

Failed(r)  == r.op = "encode" /\ r.handle # 0
              /\ (~r.allocOk \/ r.result \in {"GHOSTTY_INVALID_VALUE", "GHOSTTY_OUT_OF_MEMORY"})
ZeroLen(r) == r.op = "encode" /\ r.result = "GHOSTTY_SUCCESS" /\ r.out_len = 0

\* C1: two consecutive nativeEncodeKey calls on the same live, unchanged
\* encoder with the same key code, modifiers and text (and the same
\* allocation outcomes) return the same string.
C1_EncodeDeterministic ==
    [][(/\ last.op = "encode" /\ last'.op = "encode"
        /\ last.wasLive /\ last'.wasLive
        /\ last'.handle = last.handle /\ last'.key = last.key
        /\ last'.mods = last.mods /\ last'.text = last.text
        /\ last'.allocOk = last.allocOk /\ last'.utfOk = last.utfOk
        /\ heap' = heap)
       => last'.retStr = last.retStr]_vars

\* C2: an encoder object that has been destroyed is never passed to the
\* library's encode or free function: every call of those functions is
\* made on an encoder that is live at the time.
C2_NoUseAfterDestroy ==
    \A i \in 1..Len(last.trace) :
        (last.trace[i].f \in EncoderCalls /\ last.handle # 0) => last.wasLive

\* C3: the value returned for a successful zero-length encoding differs
\* from the value returned for a failed encoding.
C3_EmptyDiffersFromError ==
    [][(Failed(last) /\ ZeroLen(last') /\ last.wasLive /\ last'.wasLive)
       => last'.retStr # last.retStr]_vars

\* C4: when the encoded sequence is longer than the buffer, the encoder
\* refuses it with the out-of-space result, stores nothing, and
\* nativeEncodeKey returns null (no part of the sequence reaches the caller).
C4_OverflowRefused ==
    (last.op = "encode" /\ last.needed > BufSize)
        => /\ last.result = "GHOSTTY_OUT_OF_MEMORY"
           /\ last.stored = <<>>
           /\ last.retStr = JNull

C4_Witness ==
    /\ last.op = "encode" /\ last.wasLive
    /\ last.needed > BufSize /\ last.retStr.null

\* C5: a nativeEncodeKey call, whatever its outcome, leaves every encoder
\* object as it was: same liveness, same configuration.
C5_EncodeKeepsEncoder ==
    [][last'.op = "encode" => heap' = heap]_vars

C5_Witness ==
    /\ last.op = "encode" /\ last.wasLive
    /\ last.result = "GHOSTTY_INVALID_VALUE"
    /\ heap[last.handle] = [st |-> "live", cfg |-> DefaultConfig]

\* C6: nativeIsPasteSafe always returns a verdict; for an absent string or an
\* unobtainable UTF-8 copy the verdict is unsafe and the classifier is not
\* called; otherwise the classifier is called once, on the modified UTF-8
\* bytes of the whole string, and its verdict is returned.
C6_PasteVerdict ==
    last.op = "paste" =>
        /\ last.retBool \in BOOLEAN
        /\ IF last.text.null \/ ~last.utfOk
           THEN /\ last.retBool = FALSE
                /\ Idx(last.trace, "ghostty_paste_is_safe") = {}
           ELSE /\ Cardinality(Idx(last.trace, "ghostty_paste_is_safe")) = 1
                /\ last.bytes = Flatten([i \in 1..Len(last.text.chars) |->
                                            MUtf8Char(last.text.chars[i])])
                /\ last.retBool = ghostty_paste_is_safe(last.bytes)

C6_Witness ==
    /\ last.op = "paste" /\ ~last.text.null /\ last.utfOk
    /\ last.text.chars = <<65, 0, 66>> /\ last.bytes = <<65, 192, 128, 66>>

\* C7: a string made of a plain prefix, ESC [ 2 0 1 ~ and a plain suffix is
\* reported unsafe.
C7_PasteEndUnsafe ==
    \A pre \in PlainStrs, suf \in PlainStrs :
        (last.op = "paste" /\ last.text = JStr(pre \o <<27, 91, 50, 48, 49, 126>> \o suf))
            => last.retBool = FALSE

C7_Witness ==
    /\ last.op = "paste" /\ last.utfOk
    /\ last.text = JStr(<<65, 27, 91, 50, 48, 49, 126, 66>>)
    /\ Idx(last.trace, "ghostty_paste_is_safe") # {}
    /\ last.retBool = FALSE

\* C8: when the encoder succeeds with out_len > 0, the bytes that make up the
\* returned string are exactly the out_len bytes the encoder stored, and
\* the read stays inside buffer[].
C8_ReturnsStoredBytes ==
    (last.op = "encode" /\ last.wasLive
     /\ last.result = "GHOSTTY_SUCCESS" /\ last.out_len > 0)
        => /\ last.cstr = last.stored
           /\ last.retStr = JStr(NewStringUTF(last.stored))
           /\ ~last.oob

\* A created resource is released exactly once, after its creation and
\* after every use of it.
ReleasedOnce(tr, make, uses, drop) ==
    /\ Cardinality(Idx(tr, make)) = Cardinality(Idx(tr, drop))
    /\ Cardinality(Idx(tr, drop)) <= 1
    /\ \A d \in Idx(tr, drop) : \E m \in Idx(tr, make) : m < d
    /\ \A u \in 1..Len(tr) : tr[u].f \in uses =>
          /\ \E m \in Idx(tr, make) : m < u
          /\ \E d \in Idx(tr, drop) : u < d

C10_ZeroHandle ==
    /\ last.op = "create" =>
          /\ (last.retHandle = 0) <=> (last.result # "GHOSTTY_SUCCESS")
          /\ last.retHandle # 0 => IsLive(last.retHandle)
    /\ (last.op = "encode" /\ last.handle = 0) =>
          (last.retStr = JNull /\ last.trace = <<>>)
    /\ (last.op = "destroy" /\ last.handle = 0) => last.trace = <<>>

C10_Witness ==
    /\ last.op = "encode" /\ last.handle = 0
    /\ last.retStr.null
    /\ \E a \in Addrs : heap[a].st = "live"

====
